---- MODULE Spec2Model ----
(***************************************************************************)
(* Model of the artifacts lambda of sdc_aws_artifacts_lambda:              *)
(*   - handle_event / ArtifactProcessor._process_artifacts and its three   *)
(*     side-effect steps (specification Spec);                             *)
(*   - ArtifactProcessor.get_cdftracker_config, executed statement by      *)
(*     statement, called repeatedly (specification SpecConfig).            *)
(***************************************************************************)
EXTENDS Integers, Sequences, FiniteSets, TLC

\* ------------------------------------------------------------------ bounds
MaxInstruments == 3   \* longest inst_names list of a drawn swxsoc configuration
MaxDrop == 1          \* by how much a parallel list may be shorter than inst_names
MaxCalls == 2         \* calls of get_cdftracker_config in one behaviour
MaxRecords == 2       \* S3 records inside one SNS message

None == "None"

\* A slot of a configuration dict: Python None, or an instrument id
Absent == <<>>
Some(x) == <<x>>

VARIABLES
    \* ---- get_cdftracker_config
    swxsoc_config,              \* the argument: [mission |-> mission_data]
    cpc,                        \* position inside get_cdftracker_config
    instruments_list,           \* local, line 332
    instrument_configurations,  \* local, line 346
    config_id,                  \* local, line 347
    r,                          \* loop variable of line 348
    indices,                    \* state of the combinations(...) generator of line 349
    results,                    \* what each finished call returned or raised, in call order
    \* ---- handle_event
    event,                      \* the event passed to handler
    env,                        \* os.environ of the invocation
    pc,                         \* position inside handle_event / _process_artifacts
    rec,                        \* 1-based position of the for loop of line 62
    processors,                 \* ArtifactProcessor objects constructed so far
    steps,                      \* methods of ArtifactProcessor entered, in order
    calls,                      \* external calls made, in order, each with its record
    exc,                        \* the exception propagating to handle_event, or None
    errors,                     \* log.error messages, in order
    response                    \* what handle_event returned ("pending" while it runs)

cvars == <<swxsoc_config, cpc, instruments_list, instrument_configurations,
           config_id, r, indices, results>>
hvars == <<event, env, pc, rec, processors, steps, calls, exc, errors, response>>
vars == <<swxsoc_config, cpc, instruments_list, instrument_configurations,
          config_id, r, indices, results,
          event, env, pc, rec, processors, steps, calls, exc, errors, response>>

\* ------------------------------------------------------------------ helpers
RECURSIVE Pow2(_)
Pow2(n) == IF n = 0 THEN 1 ELSE 2 * Pow2(n - 1)

Min(a, b) == IF a < b THEN a ELSE b

Range(s) == {s[i] : i \in 1..Len(s)}

\* All sequences over S of length 0..n
SeqsUpTo(S, n) == UNION {[1..k -> S] : k \in 0..n}

\* ------------------------------------------------- swxsoc configurations
\* Rows the drawn configurations are built from (the instruments of the
\* hermes mission as swxsoc ships them).
InstrumentPool ==
    { [name |-> "eea", short |-> "eea",
       full |-> "Electron Electrostatic Analyzer", target |-> "EEA"],
      [name |-> "merit", short |-> "mrt",
       full |-> "Miniaturized Electron pRoton Telescope", target |-> "MERIT"],
      [name |-> "nemisis", short |-> "nms",
       full |-> "Noise Eliminating Magnetometer Instrument", target |-> "NEMISIS"] }

MissionNames == {"hermes", "padre"}

Truncate(s, d) == SubSeq(s, 1, Len(s) - Min(d, Len(s)))

\* mission_data: four parallel lists; a malformed configuration has a
\* parallel list shorter than inst_names.
MissionData(m, rows, dF, dS, dT) ==
    [ mission_name     |-> m,
      inst_names       |-> [i \in 1..Len(rows) |-> rows[i].name],
      inst_fullnames   |-> Truncate([i \in 1..Len(rows) |-> rows[i].full], dF),
      inst_shortnames  |-> Truncate([i \in 1..Len(rows) |-> rows[i].short], dS),
      inst_targetnames |-> Truncate([i \in 1..Len(rows) |-> rows[i].target], dT) ]

SwxsocConfigs ==
    { [mission |-> MissionData(m, rows, dF, dS, dT)] :
        m \in MissionNames, rows \in SeqsUpTo(InstrumentPool, MaxInstruments),
        dF \in 0..MaxDrop, dS \in 0..MaxDrop, dT \in 0..MaxDrop }

\* ------------------------------------------------- get_cdftracker_config
mission_data == swxsoc_config["mission"]
instruments == mission_data["inst_names"]
NumInstruments == Len(instruments)

\* f"{full} ({target})"
Description(full, target) == full \o " (" \o target \o ")"

\* InstrumentRecord with the 0-based index used as the id and the short name
\* in the description
InstrumentRecordZeroBased(idx) ==
    [ instrument_id |-> idx,
      description   |-> Description(mission_data["inst_shortnames"][idx + 1],
                                    mission_data["inst_targetnames"][idx + 1]),
      full_name     |-> mission_data["inst_fullnames"][idx + 1],
      short_name    |-> mission_data["inst_shortnames"][idx + 1] ]

\* One element of the list comprehension; idx is Python's 0-based index.
InstrumentRecord(idx) ==
    [ instrument_id |-> idx + 1,
      description   |-> Description(mission_data["inst_fullnames"][idx + 1],
                                    mission_data["inst_targetnames"][idx + 1]),
      full_name     |-> mission_data["inst_fullnames"][idx + 1],
      short_name    |-> mission_data["inst_shortnames"][idx + 1] ]

\* list[idx] raises IndexError for some idx in range(len(instruments))
ComprehensionRaises ==
    \E idx \in 0..(NumInstruments - 1) :
        \/ idx >= Len(mission_data["inst_fullnames"])
        \/ idx >= Len(mission_data["inst_targetnames"])
        \/ idx >= Len(mission_data["inst_shortnames"])

\* range(1, len(instruments) + 1), the pool the combinations are drawn from
pool == [i \in 1..NumInstruments |-> i]

\* itertools.combinations(pool, k): the first index tuple, range(k)
FirstIndices(k) == [i \in 1..k |-> i]

\* itertools.combinations: the positions that can still advance
\* (indices[i] != i + n - r), 1-based
Advancable(ind, n) == {i \in 1..Len(ind) : ind[i] # i + n - Len(ind)}

CHOOSEMax(S) == CHOOSE x \in S : \A y \in S : y <= x

\* itertools.combinations: the next index tuple (only when one exists)
NextIndices(ind, n) ==
    LET i == CHOOSEMax(Advancable(ind, n))
    IN  [j \in 1..Len(ind) |-> IF j < i THEN ind[j] ELSE ind[i] + 1 + (j - i)]

\* the tuple the generator yields: tuple(pool[i] for i in indices)
Combo(ind) == [i \in 1..Len(ind) |-> pool[ind[i]]]

\* ConfigDict with slot k holding instrument k when it is a member (not
\* left-packed)
ConfigDictByPosition(id, combo) ==
    [ instrument_configuration_id |-> id,
      slots |-> [k \in 1..NumInstruments |->
                    IF k \in Range(combo) THEN Some(k) ELSE Absent] ]

\* lines 350-356: the dict with instrument_configuration_id and the N
\* instrument_{i+1}_id fields (slots[i+1] is field instrument_{i+1}_id)
ConfigDict(id, combo) ==
    [ instrument_configuration_id |-> id,
      slots |-> [k \in 1..NumInstruments |->
                    IF k - 1 < Len(combo) THEN Some(combo[k]) ELSE Absent] ]

\* lines 329-343: entry of the call and the instruments_list comprehension
BuildInstrumentsList ==
    /\ cpc = "idle"
    /\ Len(results) < MaxCalls
    /\ IF ComprehensionRaises
       THEN /\ results' = Append(results, [raised |-> "IndexError"])
            /\ UNCHANGED <<cpc, instruments_list>>
       ELSE /\ instruments_list' = [k \in 1..NumInstruments |-> InstrumentRecord(k - 1)]
            /\ cpc' = "init_configs"
            /\ UNCHANGED results
    /\ UNCHANGED <<swxsoc_config, instrument_configurations, config_id, r, indices>>
    /\ UNCHANGED hvars

\* InitConfigurations with the list kept from an earlier call (a list that
\* outlives the call)
InitConfigurationsKeepList ==
    /\ cpc = "init_configs"
    /\ instrument_configurations' = instrument_configurations
    /\ config_id' = 1
    /\ r' = 1
    /\ cpc' = "for_r"
    /\ UNCHANGED <<swxsoc_config, instruments_list, indices, results>>
    /\ UNCHANGED hvars

\* InitConfigurations with the ids counted from 0
InitConfigurationsFromZero ==
    /\ cpc = "init_configs"
    /\ instrument_configurations' = <<>>
    /\ config_id' = 0
    /\ r' = 1
    /\ cpc' = "for_r"
    /\ UNCHANGED <<swxsoc_config, instruments_list, indices, results>>
    /\ UNCHANGED hvars

\* lines 346-347
InitConfigurations ==
    /\ cpc = "init_configs"
    /\ instrument_configurations' = <<>>
    /\ config_id' = 1
    /\ r' = 1
    /\ cpc' = "for_r"
    /\ UNCHANGED <<swxsoc_config, instruments_list, indices, results>>
    /\ UNCHANGED hvars

\* ForSize with range(1, len(instruments)): the full set is never enumerated
ForSizeOffByOne ==
    /\ cpc = "for_r"
    /\ IF r < NumInstruments
       THEN /\ indices' = FirstIndices(r)
            /\ cpc' = "for_combo"
       ELSE /\ cpc' = "return"
            /\ UNCHANGED indices
    /\ UNCHANGED <<swxsoc_config, instruments_list, instrument_configurations,
                   config_id, r, results>>
    /\ UNCHANGED hvars

\* line 348-349: one test of the outer loop; starts the generator for size r
ForSize ==
    /\ cpc = "for_r"
    /\ IF r <= NumInstruments
       THEN /\ indices' = FirstIndices(r)
            /\ cpc' = "for_combo"
       ELSE /\ cpc' = "return"
            /\ UNCHANGED indices
    /\ UNCHANGED <<swxsoc_config, instruments_list, instrument_configurations,
                   config_id, r, results>>
    /\ UNCHANGED hvars

\* lines 349-358: one iteration of the inner loop
ForCombo ==
    /\ cpc = "for_combo"
    /\ instrument_configurations' =
          Append(instrument_configurations, ConfigDict(config_id, Combo(indices)))
    /\ config_id' = config_id + 1
    /\ IF Advancable(indices, NumInstruments) # {}
       THEN /\ indices' = NextIndices(indices, NumInstruments)
            /\ UNCHANGED <<r, cpc>>
       ELSE /\ r' = r + 1
            /\ cpc' = "for_r"
            /\ UNCHANGED indices
    /\ UNCHANGED <<swxsoc_config, instruments_list, results>>
    /\ UNCHANGED hvars

\* lines 360-366
ReturnConfig ==
    /\ cpc = "return"
    /\ results' = Append(results,
          [ mission_name |-> mission_data["mission_name"],
            instruments |-> instruments_list,
            instrument_configurations |-> instrument_configurations ])
    /\ cpc' = "idle"
    /\ UNCHANGED <<swxsoc_config, instruments_list, instrument_configurations,
                   config_id, r, indices>>
    /\ UNCHANGED hvars

\* ------------------------------------------------------------ handle_event
\* What handle_event has returned: nothing yet, Python None (the function
\* fell off its end), or a response dict
Pending == [kind |-> "pending"]
ReturnedNone == [kind |-> "None"]
Response(code, body) == [kind |-> "dict", statusCode |-> code, body |-> body]

NoException == [type |-> None, at |-> None]

TEST_FILE_KEY == "hermes_EEA_l0_2023042-000000_v0.bin"
FileKeys == {TEST_FILE_KEY, "hermes_MERIT_l0_2023042-000000_v0.bin"}

\* One element of the "Records" list of the SNS message; a malformed one
\* lacks s3.bucket.name or s3.object.key
MalformedRecord == [wellformed |-> FALSE, bucket |-> None, key |-> None]
S3Records ==
    {[wellformed |-> TRUE, bucket |-> "hermes-eea", key |-> k] : k \in FileKeys}
        \cup {MalformedRecord}

\* A malformed event lacks Records[0].Sns.Message, or the message is not JSON
\* with a "Records" member
MalformedEvent == [wellformed |-> FALSE, records |-> <<>>]
Events ==
    {MalformedEvent} \cup
    {[wellformed |-> TRUE, records |-> recs] : recs \in SeqsUpTo(S3Records, MaxRecords)}

EnvNames == {"RDS_SECRET_ARN", "SDC_AWS_SLACK_CHANNEL"}
EnvValue(n) ==
    IF n = "RDS_SECRET_ARN" THEN "arn:aws:secretsmanager:us-east-1:rds" ELSE "C0123456"
\* a variable is unset, set to the empty string, or set to a value
Environments ==
    {[n \in D |-> IF n \in E THEN "" ELSE EnvValue(n)] :
        D \in SUBSET EnvNames, E \in SUBSET EnvNames}

\* os.getenv(name, default)
Getenv(name, default) == IF name \in DOMAIN env THEN env[name] ELSE default

\* truth value of a str-or-None
Truthy(v) == v # None /\ v # ""

Call(name, outcome) ==
    [call |-> name, rec |-> rec, key |-> event.records[rec].key, outcome |-> outcome]

Raise(type, at) == [type |-> type, at |-> at]

\* StepAfter with the notification sent before the file is downloaded
StepAfterSlackFirst(step) ==
    CASE step = "parse_file_key"          -> "science_filename_parser"
      [] step = "science_filename_parser" -> "get_instrument_bucket"
      [] step = "get_instrument_bucket"   -> "slack"
      [] step = "slack"                   -> "get_science_file"
      [] step = "get_science_file"        -> "timestream"
      [] step = "timestream"              -> "cdftracker"
      [] step = "cdftracker"              -> "return_200"

\* The statement order of _process_artifacts (lines 133-166) and the return to
\* handle_event (line 71)
StepAfter(step) ==
    CASE step = "parse_file_key"          -> "science_filename_parser"
      [] step = "science_filename_parser" -> "get_instrument_bucket"
      [] step = "get_instrument_bucket"   -> "get_science_file"
      [] step = "get_science_file"        -> "slack"
      [] step = "slack"                   -> "timestream"
      [] step = "timestream"              -> "cdftracker"
      [] step = "cdftracker"              -> "return_200"

\* lines 55-59: the event is unpacked
LoadRecords ==
    /\ pc = "start"
    /\ IF event.wellformed
       THEN /\ rec' = 1
            /\ pc' = "for_records"
            /\ UNCHANGED exc
       ELSE /\ exc' = Raise("KeyError", "load_records")
            /\ pc' = "except"
            /\ UNCHANGED rec
    /\ UNCHANGED <<event, env, processors, steps, calls, errors, response>>
    /\ UNCHANGED cvars

\* lines 62-69: one test of the for loop, the record's bucket and key, and the
\* construction of the ArtifactProcessor (whose __init__ runs
\* _process_artifacts)
ForRecord ==
    /\ pc = "for_records"
    /\ IF rec > Len(event.records)
       THEN \* the loop ends and the function ends without a return statement
            /\ response' = ReturnedNone
            /\ pc' = "done"
            /\ UNCHANGED <<processors, exc>>
       ELSE IF ~event.records[rec].wellformed
       THEN /\ exc' = Raise("KeyError", "for_records")
            /\ pc' = "except"
            /\ UNCHANGED <<processors, response>>
       ELSE /\ processors' = processors + 1
            /\ pc' = "parse_file_key"
            /\ UNCHANGED <<exc, response>>
    /\ UNCHANGED <<event, env, rec, steps, calls, errors>>
    /\ UNCHANGED cvars

\* One of the library calls of lines 134-147: it returns, or it raises and
\* the exception leaves _process_artifacts
LibraryCall(step, name) ==
    /\ pc = step
    /\ \E outcome \in {"ok", "raised"} :
          /\ calls' = Append(calls, Call(name, outcome))
          /\ IF outcome = "ok"
             THEN pc' = StepAfter(step) /\ UNCHANGED exc
             ELSE pc' = "except" /\ exc' = Raise("Exception", step)
    /\ UNCHANGED <<event, env, rec, processors, steps, errors, response>>
    /\ UNCHANGED cvars

\* line 134
ParseFileKey == LibraryCall("parse_file_key", "parse_file_key")

\* lines 137-138
ScienceFilenameParser == LibraryCall("science_filename_parser", "science_filename_parser")

\* line 139
GetInstrumentBucket == LibraryCall("get_instrument_bucket", "get_instrument_bucket")

\* lines 142-147
GetScienceFile == LibraryCall("get_science_file", "get_science_file")

\* lines 179-213. get_slack_client returns a client or None, or raises;
\* send_pipeline_notification returns or raises; a SlackApiError carries a
\* response whose ["Error"]["Code"] is "404", another number, or is missing
GenerateSlackArtifacts ==
    /\ pc = "slack"
    /\ steps' = Append(steps, "_generate_slack_artifacts")
    /\ \E client \in {"client", None, "SlackApiError", "Exception"},
          send \in {"ok", "SlackApiError", "Exception"},
          code \in {"404", "500", "missing"} :
        LET slack_channel == Getenv("SDC_AWS_SLACK_CHANNEL", None)
            sent == client = "client" /\ Truthy(slack_channel)
            raised == IF client \in {"SlackApiError", "Exception"} THEN client
                      ELSE IF sent /\ send # "ok" THEN send
                      ELSE None
            made == <<Call("get_slack_client",
                           IF client \in {"SlackApiError", "Exception"}
                           THEN "raised" ELSE "ok")>>
                    \o (IF sent
                        THEN <<Call("send_pipeline_notification",
                                    IF send = "ok" THEN "ok" ELSE "raised")>>
                        ELSE <<>>)
        IN  /\ calls' = calls \o made
            /\ CASE raised = None ->
                      /\ pc' = StepAfter("slack")
                      /\ UNCHANGED <<errors, exc>>
                 [] raised = "Exception" ->
                      /\ errors' = Append(errors, "Error when initializing slack client")
                      /\ pc' = StepAfter("slack")
                      /\ UNCHANGED exc
                 [] raised = "SlackApiError" /\ code = "404" ->
                      /\ errors' = Append(errors, "Slack Token is invalid")
                      /\ pc' = StepAfter("slack")
                      /\ UNCHANGED exc
                 [] raised = "SlackApiError" /\ code = "500" ->
                      /\ pc' = StepAfter("slack")
                      /\ UNCHANGED <<errors, exc>>
                 [] raised = "SlackApiError" /\ code = "missing" ->
                      \* line 198 raises inside the except clause
                      /\ exc' = Raise("KeyError", "slack")
                      /\ pc' = "except"
                      /\ UNCHANGED errors
    /\ UNCHANGED <<event, env, rec, processors, response>>
    /\ UNCHANGED cvars

\* lines 233-255. create_timestream_client_session returns a client or None,
\* or raises; log_to_timestream returns or raises; only
\* botocore.exceptions.ClientError is caught
GenerateTimestreamArtifacts ==
    /\ pc = "timestream"
    /\ steps' = Append(steps, "_generate_timestream_artifacts")
    /\ \E client \in {"client", None, "ClientError", "Exception"},
          logged \in {"ok", "ClientError", "Exception"} :
        LET written == client = "client"
            raised == IF client \in {"ClientError", "Exception"} THEN client
                      ELSE IF written /\ logged # "ok" THEN logged
                      ELSE None
            made == <<Call("create_timestream_client_session",
                           IF client \in {"ClientError", "Exception"}
                           THEN "raised" ELSE "ok")>>
                    \o (IF written
                        THEN <<Call("log_to_timestream",
                                    IF logged = "ok" THEN "ok" ELSE "raised")>>
                        ELSE <<>>)
        IN  /\ calls' = calls \o made
            /\ CASE raised = None ->
                      /\ pc' = StepAfter("timestream")
                      /\ UNCHANGED <<errors, exc>>
                 [] raised = "ClientError" ->
                      /\ errors' = Append(errors, "Timestream Client could not be initialized")
                      /\ pc' = StepAfter("timestream")
                      /\ UNCHANGED exc
                 [] raised = "Exception" ->
                      /\ exc' = Raise("Exception", "timestream")
                      /\ pc' = "except"
                      /\ UNCHANGED errors
    /\ UNCHANGED <<event, env, rec, processors, response>>
    /\ UNCHANGED cvars

\* The calls of lines 273-309, in order
TrackerCalls ==
    << "session.client(secretsmanager)", "client.get_secret_value",
       "get_cdftracker_config", "cdftracker.set_config", "create_engine",
       "create_tables", "tracker.CDFTracker", "cdf_tracker.track" >>

\* TrackerEnabled testing "is not None" instead of the truth value
TrackerEnabledWhenSet(secret_arn) == secret_arn # None

\* line 270: if secret_arn
TrackerEnabled(secret_arn) == Truthy(secret_arn)

\* lines 269-317. Each call of the try block returns or raises; whatever is
\* raised is caught by the except clause of line 311 and logged
GenerateCdftrackerArtifacts ==
    /\ pc = "cdftracker"
    /\ steps' = Append(steps, "_generate_cdftracker_artifacts")
    /\ LET secret_arn == Getenv("RDS_SECRET_ARN", None)
       IN  IF TrackerEnabled(secret_arn)
           THEN \E n \in 1..Len(TrackerCalls), last \in {"ok", "raised"},
                   cdf_tracker \in BOOLEAN :
                  \* n calls are made, the last of them returns or raises; the track
                  \* call is made only for a truthy tracker object
                  /\ (last = "ok") =>
                        n = IF cdf_tracker THEN Len(TrackerCalls)
                            ELSE Len(TrackerCalls) - 1
                  /\ (~cdf_tracker) => n < Len(TrackerCalls)
                  /\ calls' = calls \o
                        [i \in 1..n |->
                            Call(TrackerCalls[i],
                                 IF i = n THEN last ELSE "ok")]
                  /\ errors' = IF last = "raised"
                               THEN Append(errors, "Error when initializing database engine")
                               ELSE errors
           ELSE UNCHANGED <<calls, errors>>
    /\ pc' = StepAfter("cdftracker")
    /\ UNCHANGED <<event, env, rec, processors, exc, response>>
    /\ UNCHANGED cvars

\* Return200 with the return statement after the loop: the next record is
\* processed too
Return200AfterLoop ==
    /\ pc = "return_200"
    /\ IF rec < Len(event.records)
       THEN /\ rec' = rec + 1
            /\ pc' = "for_records"
            /\ UNCHANGED response
       ELSE /\ response' = Response(200, "Artifacts Processed Successfully")
            /\ pc' = "done"
            /\ UNCHANGED rec
    /\ UNCHANGED <<event, env, processors, steps, calls, exc, errors>>
    /\ UNCHANGED cvars

\* line 71: the return inside the loop body
Return200 ==
    /\ pc = "return_200"
    /\ response' = Response(200, "Artifacts Processed Successfully")
    /\ pc' = "done"
    /\ UNCHANGED <<event, env, rec, processors, steps, calls, exc, errors>>
    /\ UNCHANGED cvars

\* lines 73-79
Except ==
    /\ pc = "except"
    /\ errors' = Append(errors, exc.type)
    /\ response' = Response(500, "\"Error Processing Artifacts: " \o exc.type \o "\"")
    /\ pc' = "done"
    /\ UNCHANGED <<event, env, rec, processors, steps, calls, exc>>
    /\ UNCHANGED cvars

\* The swxsoc configuration of the hermes mission
HermesConfig ==
    [mission |->
        [ mission_name     |-> "hermes",
          inst_names       |-> <<"eea", "merit", "nemisis">>,
          inst_fullnames   |-> <<"Electron Electrostatic Analyzer",
                                 "Miniaturized Electron pRoton Telescope",
                                 "Noise Eliminating Magnetometer Instrument">>,
          inst_shortnames  |-> <<"eea", "mrt", "nms">>,
          inst_targetnames |-> <<"EEA", "MERIT", "NEMISIS">> ]]

ConfigIdle ==
    /\ swxsoc_config = HermesConfig
    /\ cpc = "idle"
    /\ instruments_list = <<>>
    /\ instrument_configurations = <<>>
    /\ config_id = 0
    /\ r = 0
    /\ indices = <<>>
    /\ results = <<>>

\* One invocation of handler(event, context)
Init ==
    /\ event \in Events
    /\ env \in Environments
    /\ pc = "start"
    /\ rec = 0
    /\ processors = 0
    /\ steps = <<>>
    /\ calls = <<>>
    /\ exc = NoException
    /\ errors = <<>>
    /\ response = Pending
    /\ ConfigIdle

Next ==
    \/ LoadRecords
    \/ ForRecord
    \/ ParseFileKey
    \/ ScienceFilenameParser
    \/ GetInstrumentBucket
    \/ GetScienceFile
    \/ GenerateSlackArtifacts
    \/ GenerateTimestreamArtifacts
    \/ GenerateCdftrackerArtifacts
    \/ Return200
    \/ Except

Spec == Init /\ [][Next]_vars

HandlerIdle ==
    /\ event = MalformedEvent /\ env = <<>> /\ pc = "idle" /\ rec = 0
    /\ processors = 0 /\ steps = <<>> /\ calls = <<>> /\ exc = NoException
    /\ errors = <<>> /\ response = Pending

InitConfig ==
    /\ swxsoc_config \in SwxsocConfigs
    /\ cpc = "idle"
    /\ instruments_list = <<>>
    /\ instrument_configurations = <<>>
    /\ config_id = 0
    /\ r = 0
    /\ indices = <<>>
    /\ results = <<>>
    /\ HandlerIdle

NextConfig ==
    \/ BuildInstrumentsList
    \/ InitConfigurations
    \/ ForSize
    \/ ForCombo
    \/ ReturnConfig

SpecConfig == InitConfig /\ [][NextConfig]_vars

\* ------------------------------------------- claims on get_cdftracker_config
Returned(res) == "instrument_configurations" \in DOMAIN res

\* the non-None slot values of one configuration
SlotSet(c) == {c.slots[p][1] : p \in {q \in DOMAIN c.slots : c.slots[q] # Absent}}

\* the members of a set of integers as an ascending sequence
RECURSIVE SortedSeq(_)
SortedSeq(S) ==
    IF S = {} THEN <<>>
    ELSE LET m == CHOOSE x \in S : \A y \in S : x <= y
         IN  <<m>> \o SortedSeq(S \ {m})

\* a before b in lexicographic order (sequences of equal length)
LexLess(a, b) ==
    \E i \in 1..Len(a) :
        /\ a[i] < b[i]
        /\ \A j \in 1..(i - 1) : a[j] = b[j]

\* a before b in the enumeration order: size first, then lexicographic
EnumBefore(A, B) ==
    \/ Cardinality(A) < Cardinality(B)
    \/ /\ Cardinality(A) = Cardinality(B)
       /\ LexLess(SortedSeq(A), SortedSeq(B))

\* C1: over N >= 1 instruments every entry's set of non-None slots is a
\* non-empty subset of {1..N}, every non-empty subset of {1..N} is the slot
\* set of exactly one entry, and the list has exactly 2^N - 1 entries.
C1_AllNonEmptySubsetsOnce ==
    \A c \in 1..Len(results) :
        (Returned(results[c]) /\ NumInstruments >= 1) =>
            LET cfgs == results[c].instrument_configurations
                N == NumInstruments
            IN  /\ \A i \in 1..Len(cfgs) :
                      SlotSet(cfgs[i]) # {} /\ SlotSet(cfgs[i]) \subseteq 1..N
                /\ \A S \in (SUBSET (1..N)) \ {{}} :
                      Cardinality({i \in 1..Len(cfgs) : SlotSet(cfgs[i]) = S}) = 1
                /\ Len(cfgs) = Pow2(N) - 1

C1_Witness ==
    /\ NumInstruments >= 3
    /\ Len(results) >= 1
    /\ Returned(results[1])
    /\ Len(results[1].instrument_configurations) >= 7

\* C2: the instrument_configuration_id values are exactly 1..2^N - 1 without
\* gap or repeat and increase along the enumeration order (subset size first,
\* then lexicographic order of the members); for N = 3 the list is
\* [1,_,_], [2,_,_], [3,_,_], [1,2,_], [1,3,_], [2,3,_], [1,2,3], ids 1..7.
C2_IdsDenseInEnumerationOrder ==
    \A c \in 1..Len(results) :
        (Returned(results[c]) /\ NumInstruments >= 1) =>
            LET cfgs == results[c].instrument_configurations
                N == NumInstruments
            IN  /\ {cfgs[i].instrument_configuration_id : i \in 1..Len(cfgs)}
                      = 1..(Pow2(N) - 1)
                /\ \A i, j \in 1..Len(cfgs) :
                      i < j =>
                        /\ cfgs[i].instrument_configuration_id
                              < cfgs[j].instrument_configuration_id
                        /\ EnumBefore(SlotSet(cfgs[i]), SlotSet(cfgs[j]))
                /\ N = 3 =>
                      cfgs = << [instrument_configuration_id |-> 1, slots |-> <<Some(1), Absent, Absent>>],
                                [instrument_configuration_id |-> 2, slots |-> <<Some(2), Absent, Absent>>],
                                [instrument_configuration_id |-> 3, slots |-> <<Some(3), Absent, Absent>>],
                                [instrument_configuration_id |-> 4, slots |-> <<Some(1), Some(2), Absent>>],
                                [instrument_configuration_id |-> 5, slots |-> <<Some(1), Some(3), Absent>>],
                                [instrument_configuration_id |-> 6, slots |-> <<Some(2), Some(3), Absent>>],
                                [instrument_configuration_id |-> 7, slots |-> <<Some(1), Some(2), Some(3)>>] >>

C2_Witness ==
    /\ NumInstruments = 3
    /\ Len(results) >= 1
    /\ Returned(results[1])
    /\ results[1].instrument_configurations[5].instrument_configuration_id = 5

\* C3: every configuration has exactly the N slot fields instrument_1_id ..
\* instrument_N_id; for a subset of size k the first k slots hold its members
\* in strictly ascending order and slots k+1..N are None.
C3_SlotsLeftPackedAscending ==
    \A c \in 1..Len(results) :
        Returned(results[c]) =>
            LET cfgs == results[c].instrument_configurations
                N == NumInstruments
            IN  \A i \in 1..Len(cfgs) :
                  LET s == cfgs[i].slots
                      k == Cardinality(SlotSet(cfgs[i]))
                  IN  /\ DOMAIN s = 1..N
                      /\ \A p \in 1..N : (p <= k) <=> (s[p] # Absent)
                      /\ \A p, q \in 1..k : p < q => s[p][1] < s[q][1]

C3_Witness ==
    /\ NumInstruments >= 3
    /\ Len(results) >= 1
    /\ Returned(results[1])
    /\ \E i \in 1..Len(results[1].instrument_configurations) :
          results[1].instrument_configurations[i].slots[1] = Some(2)
          /\ results[1].instrument_configurations[i].slots[2] = Some(3)
          /\ results[1].instrument_configurations[i].slots[3] = Absent

\* C6: the instruments list has one record per entry of inst_names, in input
\* order; the record at 0-based position idx has instrument_id idx + 1,
\* full_name and short_name of the same index, and description
\* "{full_name} ({target_name})" of the same index.
C6_InstrumentRecords ==
    \A c \in 1..Len(results) :
        Returned(results[c]) =>
            LET insts == results[c].instruments
            IN  /\ Len(insts) = Len(mission_data["inst_names"])
                /\ \A p \in 1..Len(insts) :
                      /\ insts[p].instrument_id = p
                      /\ insts[p].full_name = mission_data["inst_fullnames"][p]
                      /\ insts[p].short_name = mission_data["inst_shortnames"][p]
                      /\ insts[p].description =
                            mission_data["inst_fullnames"][p] \o " (" \o
                            mission_data["inst_targetnames"][p] \o ")"
                /\ \A p, q \in 1..Len(insts) :
                      p # q => insts[p].instrument_id # insts[q].instrument_id

C6_Witness ==
    /\ Len(results) >= 1
    /\ Returned(results[1])
    /\ Len(results[1].instruments) >= 2
    /\ results[1].instruments[2].description
          = "Miniaturized Electron pRoton Telescope (MERIT)"
    /\ results[1].instruments[1].short_name = "eea"

\* C7: two calls with the same swxsoc configuration return equal results
\* (mission_name, instruments, instrument_configurations with their order and
\* ids), whatever was called before.
C7_CallsAgree ==
    \A c, d \in 1..Len(results) : results[c] = results[d]

C7_Witness ==
    /\ Len(results) >= 2
    /\ Returned(results[1])
    /\ Returned(results[2])
    /\ NumInstruments >= 2

\* ------------------------------------------------------ claims on handle_event
OK200 == Response(200, "Artifacts Processed Successfully")

CallNames == {calls[i].call : i \in 1..Len(calls)}

PreparationCalls ==
    {"parse_file_key", "science_filename_parser", "get_instrument_bucket",
     "get_science_file"}
SlackCalls == {"get_slack_client", "send_pipeline_notification"}
TimestreamCalls == {"create_timestream_client_session", "log_to_timestream"}
ArtifactCalls == SlackCalls \cup TimestreamCalls \cup Range(TrackerCalls)

\* the stage of _process_artifacts a call belongs to
Stage(name) ==
    CASE name = "parse_file_key"          -> 1
      [] name = "science_filename_parser" -> 2
      [] name = "get_instrument_bucket"   -> 3
      [] name = "get_science_file"        -> 4
      [] name \in SlackCalls              -> 5
      [] name \in TimestreamCalls         -> 6
      [] name \in Range(TrackerCalls)     -> 7

ArtifactSteps ==
    << "_generate_slack_artifacts", "_generate_timestream_artifacts",
       "_generate_cdftracker_artifacts" >>

\* C4: whatever one of the three side-effect steps raises from its external
\* call is caught inside that step, the remaining steps still run and
\* handle_event returns the 200 response.
C4_StepsIsolated ==
    (pc = "done" /\ "_generate_slack_artifacts" \in Range(steps)) =>
        /\ steps = ArtifactSteps
        /\ response = OK200

\* C5: for every event handle_event returns a response dict: 200 with body
\* "Artifacts Processed Successfully" when no exception reached it, 500 when
\* one did; it returns nothing else.
C5_AlwaysResponseDict ==
    pc = "done" =>
        \/ exc = NoException /\ response = OK200
        \/ exc # NoException /\ response.kind = "dict" /\ response.statusCode = 500

\* C8: within one record parsing, bucket resolution and the download complete
\* before any artifact is emitted, then Slack, then Timestream, then the CDF
\* tracker; when parsing, bucket resolution or the download raises, no Slack,
\* Timestream or tracker call is made and handle_event returns 500.
C8_FixedOrder ==
    /\ \A i, j \in 1..Len(calls) :
          i < j => Stage(calls[i].call) <= Stage(calls[j].call)
    /\ steps = SubSeq(ArtifactSteps, 1, Len(steps))
    /\ (CallNames \cap ArtifactCalls # {}) =>
          \A p \in PreparationCalls :
              \E i \in 1..Len(calls) :
                  /\ calls[i].call = p
                  /\ calls[i].outcome = "ok"
                  /\ \A j \in 1..Len(calls) :
                        calls[j].call \in ArtifactCalls => i < j
    /\ (\E i \in 1..Len(calls) :
            calls[i].call \in PreparationCalls /\ calls[i].outcome = "raised") =>
          /\ CallNames \cap ArtifactCalls = {}
          /\ steps = <<>>
          /\ pc \in {"except", "done"}
          /\ pc = "done" => (response.kind = "dict" /\ response.statusCode = 500)

C8_Witness ==
    /\ pc = "done"
    /\ response = OK200
    /\ steps = ArtifactSteps
    /\ {"send_pipeline_notification", "log_to_timestream", "cdf_tracker.track"}
          \subseteq CallNames

\* C9: at most one ArtifactProcessor is constructed per invocation; with
\* k >= 1 records only the first record's key is processed, and the response
\* is returned before records 2..k are looked at.
C9_OnlyFirstRecord ==
    /\ processors <= 1
    /\ rec <= 1
    /\ \A i \in 1..Len(calls) :
          calls[i].rec = 1 /\ calls[i].key = event.records[1].key
    /\ (pc = "done" /\ Len(event.records) >= 1) => response.kind = "dict"

C9_Witness ==
    /\ pc = "done"
    /\ response = OK200
    /\ Len(event.records) >= 2
    /\ event.records[2].wellformed
    /\ event.records[2].key # event.records[1].key
    /\ processors = 1

\* C10: the tracker step contacts Secrets Manager, builds the tracker config,
\* creates the engine and tables and calls track only when RDS_SECRET_ARN is
\* set to a non-empty value; when it is unset or empty none of those calls is
\* made; in both cases the step returns without raising.
C10_TrackerGated ==
    /\ (CallNames \cap Range(TrackerCalls) # {}) =>
          /\ "RDS_SECRET_ARN" \in DOMAIN env
          /\ env["RDS_SECRET_ARN"] # ""
    /\ "_generate_cdftracker_artifacts" \in Range(steps) =>
          /\ pc \in {"return_200", "done"}
          /\ exc = NoException
          /\ pc = "done" => response = OK200
          /\ ("RDS_SECRET_ARN" \in DOMAIN env /\ env["RDS_SECRET_ARN"] # "") =>
                "session.client(secretsmanager)" \in CallNames

C10_Witness ==
    /\ pc = "done"
    /\ response = OK200
    /\ \E i \in 1..Len(calls) :
          calls[i].call = "cdf_tracker.track" /\ calls[i].outcome = "ok"
    /\ {"client.get_secret_value", "get_cdftracker_config", "create_engine",
        "create_tables"} \subseteq CallNames

====
